---- MODULE Spec2Model ----
(***************************************************************************)
(* A model of the interactive 3D viewer of src/src/App.tsx and of          *)
(* src/src/hooks/useFullscreen.ts: the persisted preferences               *)
(* (useLocalStorage, resetSettings), the hotspot selection and the model   *)
(* rotation driver, the marker scale of InteractivePoint, and the          *)
(* fullscreen toggle.                                                      *)
(*                                                                         *)
(* Texts (strings of the program) are sequences of one-character strings,  *)
(* so that formatting and parsing are computed character by character.     *)
(* JavaScript values are tagged records:                                   *)
(*   [kind |-> "bool", b], [kind |-> "num", m, e] (the decimal m * 10^-e,  *)
(*   normalised), [kind |-> "null"], [kind |-> "nan"], [kind |-> "str", s] *)
(***************************************************************************)
EXTENDS Integers, Sequences, FiniteSets, TLC

\* ------------------------------------------------------------------ bounds

\* Operations on the preferences in one run: sets, resets, reloads, and the
\* write of another page that precedes the first session.
MaxOps == 3

\* Store operations that fail in one run.
MaxFaults == 1

\* ------------------------------------------------------------ JS values

Bool(b) == [kind |-> "bool", b |-> b]

JSNull == [kind |-> "null"]

JSNaN == [kind |-> "nan"]

Str(s) == [kind |-> "str", s |-> s]

RECURSIVE Normalise(_, _)
\* The canonical form of the decimal m * 10^-e: no trailing zero in the fraction.
Normalise(m, e) ==
    IF e > 0 /\ m % 10 = 0 THEN Normalise(m \div 10, e - 1)
    ELSE [kind |-> "num", m |-> m, e |-> e]

Num(m, e) == Normalise(m, e)

IsNum(v) == v.kind = "num"

IsBool(v) == v.kind = "bool"

\* JavaScript's ToBoolean.
Truthy(v) ==
    CASE v.kind = "bool" -> v.b
      [] v.kind = "num"  -> v.m # 0
      [] v.kind = "str"  -> v.s # <<>>
      [] OTHER           -> FALSE

\* JavaScript's unary ! .
Not(v) == Bool(~Truthy(v))

\* ------------------------------------------------------------ texts

DigitChars == <<"0", "1", "2", "3", "4", "5", "6", "7", "8", "9">>

IsDigit(c) == \E i \in 1..10 : DigitChars[i] = c

DigitVal(c) == (CHOOSE i \in 1..10 : DigitChars[i] = c) - 1

RECURSIVE Pow10(_)
Pow10(n) == IF n = 0 THEN 1 ELSE 10 * Pow10(n - 1)

RECURSIVE NatText(_)
\* The decimal digits of a natural number.
NatText(n) ==
    IF n < 10 THEN <<DigitChars[n + 1]>>
    ELSE NatText(n \div 10) \o <<DigitChars[(n % 10) + 1]>>

RECURSIVE DigitsValue(_)
\* The natural number a sequence of digits denotes.
DigitsValue(ds) ==
    IF ds = <<>> THEN 0
    ELSE 10 * DigitsValue(SubSeq(ds, 1, Len(ds) - 1)) + DigitVal(ds[Len(ds)])

AllDigits(t) == \A i \in 1..Len(t) : IsDigit(t[i])

\* JSON's int: "0", or a digit 1-9 followed by digits.
IsJsonInt(t) == /\ Len(t) >= 1
                /\ AllDigits(t)
                /\ (Len(t) > 1 => t[1] # "0")

Abs(n) == IF n < 0 THEN -n ELSE n

\* The fraction digits of |m| * 10^-e, left-padded with zeros to e digits.
FracText(m, e) ==
    LET f  == Abs(m) % Pow10(e)
        ds == NatText(f)
    IN  [i \in 1..(e - Len(ds)) |-> "0"] \o ds

\* Number::toString for the finite decimals of the model.
NumText(v) ==
    (IF v.m < 0 THEN <<"-">> ELSE <<>>)
    \o NatText(Abs(v.m) \div Pow10(v.e))
    \o (IF v.e > 0 THEN <<".">> \o FracText(v.m, v.e) ELSE <<>>)

\* JSON.stringify of a boolean, a number, null or a string without escapes.
\* A NaN is serialised as null.
JSONstringify(v) ==
    CASE v.kind = "bool" -> IF v.b THEN <<"t", "r", "u", "e">>
                                   ELSE <<"f", "a", "l", "s", "e">>
      [] v.kind = "num"  -> NumText(v)
      [] v.kind = "str"  -> <<"\"">> \o v.s \o <<"\"">>
      [] OTHER           -> <<"n", "u", "l", "l">>

\* Position of the first "." of t, or 0.
DotAt(t) == IF \E i \in 1..Len(t) : t[i] = "."
            THEN CHOOSE i \in 1..Len(t) : t[i] = "." /\ \A j \in 1..(i - 1) : t[j] # "."
            ELSE 0

\* An unsigned JSON number without exponent: int, or int "." digits+ .
IsUnsignedDecimal(t) ==
    LET d == DotAt(t)
    IN  IF d = 0 THEN IsJsonInt(t)
        ELSE /\ IsJsonInt(SubSeq(t, 1, d - 1))
             /\ d < Len(t)
             /\ AllDigits(SubSeq(t, d + 1, Len(t)))

IsDecimal(t) ==
    IF Len(t) >= 1 /\ t[1] = "-" THEN IsUnsignedDecimal(Tail(t))
    ELSE IsUnsignedDecimal(t)

UnsignedDecimalValue(t) ==
    LET d == DotAt(t)
    IN  IF d = 0 THEN Num(DigitsValue(t), 0)
        ELSE Num(DigitsValue(SubSeq(t, 1, d - 1) \o SubSeq(t, d + 1, Len(t))),
                 Len(t) - d)

\* The number a decimal text denotes.
DecimalValue(t) ==
    IF t[1] = "-"
    THEN LET u == UnsignedDecimalValue(Tail(t)) IN Num(-u.m, u.e)
    ELSE UnsignedDecimalValue(t)

IsJsonString(t) ==
    /\ Len(t) >= 2
    /\ t[1] = "\"" /\ t[Len(t)] = "\""
    /\ \A i \in 2..(Len(t) - 1) : t[i] \notin {"\"", "\\"}

\* JSON.parse on the texts of the model: [ok |-> TRUE, val |-> value], or
\* [ok |-> FALSE] when it throws a SyntaxError.
JSONparse(t) ==
    CASE t = <<"t", "r", "u", "e">>      -> [ok |-> TRUE, val |-> Bool(TRUE)]
      [] t = <<"f", "a", "l", "s", "e">> -> [ok |-> TRUE, val |-> Bool(FALSE)]
      [] t = <<"n", "u", "l", "l">>      -> [ok |-> TRUE, val |-> JSNull]
      [] IsDecimal(t)                    -> [ok |-> TRUE, val |-> DecimalValue(t)]
      [] IsJsonString(t)                 -> [ok |-> TRUE, val |-> Str(SubSeq(t, 2, Len(t) - 1))]
      [] OTHER                           -> [ok |-> FALSE]

\* parseFloat: the number denoted by the longest decimal prefix, NaN without one.
parseFloat(t) ==
    LET ps == {i \in 1..Len(t) : IsDecimal(SubSeq(t, 1, i))}
    IN  IF ps = {} THEN JSNaN
        ELSE DecimalValue(SubSeq(t, 1, CHOOSE i \in ps : \A j \in ps : j <= i))

IsSignedInt(t) ==
    IF Len(t) >= 1 /\ t[1] = "-" THEN Len(t) >= 2 /\ AllDigits(Tail(t))
    ELSE Len(t) >= 1 /\ AllDigits(t)

\* parseInt(t, 10): the integer denoted by the longest prefix of sign and digits.
parseInt(t) ==
    LET ps == {i \in 1..Len(t) : IsSignedInt(SubSeq(t, 1, i))}
        p  == SubSeq(t, 1, CHOOSE i \in ps : \A j \in ps : j <= i)
    IN  IF ps = {} THEN JSNaN
        ELSE IF p[1] = "-" THEN Num(-DigitsValue(Tail(p)), 0)
        ELSE Num(DigitsValue(p), 0)

\* JavaScript's * and + on the finite decimals of the model (exact: the
\* rounding of binary floating point is not modelled).
Mul(a, b) == Num(a.m * b.m, a.e + b.e)

Add(a, b) ==
    LET e == IF a.e > b.e THEN a.e ELSE b.e
    IN  Num(a.m * Pow10(e - a.e) + b.m * Pow10(e - b.e), e)

\* a <= b on decimals.
Leq(a, b) ==
    LET e == IF a.e > b.e THEN a.e ELSE b.e
    IN  a.m * Pow10(e - a.e) <= b.m * Pow10(e - b.e)

\* ------------------------------------------------------------ rationals

RECURSIVE Gcd(_, _)
Gcd(a, b) == IF b = 0 THEN a ELSE Gcd(b, a % b)

\* The quotient n / d in lowest terms, d >= 0; d = 0 is +Infinity (n > 0).
Q(n, d) ==
    LET g == Gcd(Abs(n), Abs(d))
        s == IF d < 0 THEN -1 ELSE 1
    IN  IF g = 0 THEN [n |-> 0, d |-> 1]
        ELSE [n |-> s * (n \div g), d |-> s * (d \div g)]

\* A decimal as a quotient.
ToQ(v) == Q(v.m, Pow10(v.e))

QMul(a, b) == Q(a.n * b.n, a.d * b.d)

\* 1 / a; 1 / 0 is +Infinity.
QRecip(a) == Q(a.d, a.n)

QLeq(a, b) == a.n * b.d <= b.n * a.d

\* Math.min
QMin(a, b) == IF QLeq(a, b) THEN a ELSE b

\* ------------------------------------------------------------ state

VARIABLES
    mem,               \* storedValue of each useLocalStorage hook, by key
    store,             \* window.localStorage: a function from the keys present to texts
    thrown,            \* the last handler let an exception escape to its caller
    logged,            \* errors the last handler (or load) caught and logged
    crashed,           \* the last render of App threw: nothing is mounted
    activePoint,       \* id of the active hotspot, 0 for null
    actualIsRotating,  \* the isAutoRotating prop Airplane was last rendered with
    orbitEnabled,      \* the enabled prop OrbitControls was last rendered with
    isLoading,         \* LoadingProvider's flag: the model is not mounted yet
    yaw,               \* modelRef.current.rotation.y
    frames,            \* frames rendered in this run
    distance,          \* camera-to-marker distance of the last marker frame
    scaleFactor,       \* pointRef.current.scale of a marker
    reqApis,           \* the request-fullscreen methods the platform exposes
    exitApis,          \* the exit-fullscreen methods the platform exposes
    fsElement,         \* the fullscreen-element accessors that are non-null
    isFullscreen,      \* useFullscreen's state
    pending,           \* the fullscreen request in flight
    ops,               \* operations on the preferences in this run
    faults,            \* store operations that failed in this run
    lastOp,            \* the last step taken and its inputs
    setLog,            \* while clean: the last value set for each key set so far
    clean,             \* the store began empty and only successful sets and loads followed
    isImageLoaded,     \* InfoBox's state, FALSE while no InfoBox is mounted
    imageReported,     \* the img element fired load for its present src
    reached            \* the handlers the last pointer event ran

prefVars == <<mem, store, thrown, logged, crashed, ops, faults, setLog, clean>>

selVars == <<activePoint, actualIsRotating, orbitEnabled, isLoading, yaw, frames>>

scaleVars == <<distance, scaleFactor>>

fsVars == <<reqApis, exitApis, fsElement, isFullscreen, pending>>

detailVars == <<isImageLoaded, imageReported, reached>>

vars == <<prefVars, selVars, scaleVars, fsVars, detailVars, lastOp>>

\* ------------------------------------------------------------ preferences

\* The nine keys, in the order resetSettings goes through them.
KeyOrder == <<"isAutoRotating", "ambientIntensity", "directionalIntensity",
              "lightAngle", "showPoints", "pointSize", "rotationSpeed",
              "isPropellerSpinning", "propellerSpeed">>

Keys == {KeyOrder[i] : i \in 1..Len(KeyOrder)}

BoolKeys == {"isAutoRotating", "showPoints", "isPropellerSpinning"}

NumKeys == Keys \ BoolKeys

\* The initialValue each hook is called with.
initialValue(key) ==
    CASE key = "isAutoRotating"       -> Bool(TRUE)
      [] key = "ambientIntensity"     -> Num(0, 0)
      [] key = "directionalIntensity" -> Num(2, 0)
      [] key = "lightAngle"           -> Num(70, 0)
      [] key = "showPoints"           -> Bool(TRUE)
      [] key = "pointSize"            -> Num(6, 1)
      [] key = "rotationSpeed"        -> Num(3, 1)
      [] key = "isPropellerSpinning"  -> Bool(TRUE)
      [] key = "propellerSpeed"       -> Num(15, 0)

\* localStorage.setItem and removeItem on the store.
setItem(st, key, text) ==
    [k \in DOMAIN st \cup {key} |-> IF k = key THEN text ELSE st[k]]

removeItem(st, key) == [k \in DOMAIN st \ {key} |-> st[k]]

\* The initializer with JSON.parse(item) || initialValue.
storedValueInitOrDefault(st, key, getThrows) ==
    IF getThrows THEN initialValue(key)
    ELSE IF key \notin DOMAIN st \/ st[key] = <<>> THEN initialValue(key)
    ELSE IF JSONparse(st[key]).ok /\ Truthy(JSONparse(st[key]).val)
    THEN JSONparse(st[key]).val
    ELSE initialValue(key)

\* The useState initializer of useLocalStorage: the value a hook starts with.
\* getThrows: window.localStorage.getItem throws.
storedValueInit(st, key, getThrows) ==
    IF getThrows THEN initialValue(key)
    ELSE IF key \notin DOMAIN st \/ st[key] = <<>> THEN initialValue(key)
    ELSE IF JSONparse(st[key]).ok THEN JSONparse(st[key]).val
    ELSE initialValue(key)

\* That initializer catches and logs an error.
initLogs(st, key, getThrows) ==
    IF getThrows THEN TRUE
    ELSE IF key \notin DOMAIN st \/ st[key] = <<>> THEN FALSE
    ELSE ~JSONparse(st[key]).ok

\* The state a handler works on: w.mem, w.store, w.logged, w.thrown.
World == [mem |-> mem, store |-> store, logged |-> 0, thrown |-> FALSE]

\* setValue with the update skipped for a falsy value.
setValueSkipsFalsy(w, key, value, setThrows) ==
    IF w.thrown \/ ~Truthy(value) THEN w
    ELSE IF setThrows
    THEN [w EXCEPT !.mem[key] = value, !.logged = @ + 1]
    ELSE [w EXCEPT !.mem[key] = value,
                   !.store = setItem(@, key, JSONstringify(value))]

\* setValue with the store written before the state is set.
setValuePersistsFirst(w, key, value, setThrows) ==
    IF w.thrown THEN w
    ELSE IF setThrows
    THEN [w EXCEPT !.logged = @ + 1]
    ELSE [w EXCEPT !.mem[key] = value,
                   !.store = setItem(@, key, JSONstringify(value))]

\* setValue of useLocalStorage (value is never a function here).
\* setThrows: window.localStorage.setItem throws.
setValue(w, key, value, setThrows) ==
    IF w.thrown THEN w
    ELSE IF setThrows
    THEN [w EXCEPT !.mem[key] = value, !.logged = @ + 1]
    ELSE [w EXCEPT !.mem[key] = value,
                   !.store = setItem(@, key, JSONstringify(value))]

\* One localStorage.removeItem(key) statement of resetSettings.
removeStmt(w, key, removeThrows) ==
    IF w.thrown THEN w
    ELSE IF removeThrows THEN [w EXCEPT !.thrown = TRUE]
    ELSE [w EXCEPT !.store = removeItem(@, key)]

RECURSIVE resetWrites(_, _, _)
\* The nine setters of resetSettings, from the i-th on.
resetWrites(w, i, wfail) ==
    IF i > Len(KeyOrder) THEN w
    ELSE resetWrites(setValue(w, KeyOrder[i], initialValue(KeyOrder[i]),
                              KeyOrder[i] \in wfail),
                     i + 1, wfail)

RECURSIVE resetRemoves(_, _, _)
\* The nine removeItem statements of resetSettings, from the i-th on.
resetRemoves(w, i, rfail) ==
    IF i > Len(KeyOrder) THEN w
    ELSE resetRemoves(removeStmt(w, KeyOrder[i], KeyOrder[i] \in rfail),
                      i + 1, rfail)

\* resetSettings. wfail: the keys whose setItem throws; rfail: the keys whose
\* removeItem throws.
resetSettings(w, wfail, rfail) == resetRemoves(resetWrites(w, 1, wfail), 1, rfail)

\* The fields App's render calls toFixed on.
ToFixedKeys == {"rotationSpeed", "propellerSpeed", "ambientIntensity",
                "directionalIntensity", "pointSize"}

\* App's render throws a TypeError: toFixed called on a value that is no number.
renderThrows(m) == \E k \in ToFixedKeys : m[k].kind \notin {"num", "nan"}

\* The ids of pointsData.
PointIds == {1, 2, 3}

\* The preference passed down as it is.
actualIsRotatingPreferenceOnly(m, ap) == Truthy(m["isAutoRotating"])

\* const actualIsRotating = isAutoRotating && !activePoint
actualIsRotatingOf(m, ap) == Truthy(m["isAutoRotating"]) /\ ap = 0

\* <OrbitControls enabled={!activePoint} />
orbitEnabledOf(ap) == ap = 0

\* <group ref={pointRef} scale={[size, size, size]}>
scaleProp(m) ==
    IF IsNum(m["pointSize"]) THEN ToQ(m["pointSize"]) ELSE Q(0, 1)

\* The cap applied after the multiplication by size.
scaleFactorCappedLast(dist, size) ==
    QMin(QMul(QRecip(QMul(dist, Q(2, 10))), size), Q(8, 10))

\* const scaleFactor = Math.min(1 / (distance * 0.2), 0.8) * size
scaleFactorOf(dist, size) ==
    QMul(QMin(QRecip(QMul(dist, Q(2, 10))), Q(8, 10)), size)

\* What the render that follows a state change passes down. A marker's scale
\* prop is applied when it changes and when the markers are mounted.
Render ==
    /\ crashed' = (crashed \/ renderThrows(mem'))
    /\ actualIsRotating' = actualIsRotatingOf(mem', activePoint')
    /\ orbitEnabled' = orbitEnabledOf(activePoint')
    /\ scaleFactor' =
         IF \/ mem'["pointSize"] # mem["pointSize"]
            \/ (Truthy(mem'["showPoints"]) /\ ~Truthy(mem["showPoints"]))
         THEN scaleProp(mem')
         ELSE scaleFactor
    /\ distance' = distance
    /\ isImageLoaded' = (IF activePoint = 0 \/ activePoint' = 0 THEN FALSE
                         ELSE isImageLoaded)
    /\ imageReported' = (IF activePoint' = activePoint THEN imageReported
                         ELSE FALSE)

NoOp == [op |-> "init", key |-> "", val |-> JSNull, rejected |-> FALSE,
         wfail |-> {}, rfail |-> {}, gfail |-> {}]

\* A handler's result becomes the state: React applies the queued updates
\* after the handler, also when the handler threw.
Commit(w) ==
    /\ mem' = w.mem
    /\ store' = w.store
    /\ logged' = w.logged
    /\ thrown' = w.thrown

SessionVars == <<activePoint, isLoading, yaw, frames, reached>>

\* The last value noted for a key.
Noted(log, key, value) ==
    [k \in DOMAIN log \cup {key} |-> IF k = key THEN value ELSE log[k]]

\* A setter called from a control: setX(value).
Set(key, value, setThrows) ==
    /\ ~crashed
    /\ ops < MaxOps
    /\ setThrows => faults < MaxFaults
    /\ Commit(setValue(World, key, value, setThrows))
    /\ ops' = ops + 1
    /\ faults' = faults + (IF setThrows THEN 1 ELSE 0)
    /\ lastOp' = [NoOp EXCEPT !.op = "set", !.key = key, !.val = value,
                              !.rejected = setThrows]
    /\ clean' = (clean /\ ~setThrows)
    /\ setLog' = IF clean' THEN Noted(setLog, key, value) ELSE <<>>
    /\ UNCHANGED SessionVars
    /\ UNCHANGED fsVars
    /\ Render

\* A checkbox: onChange={() => setX(!x)}.
Toggle(key) == \E f \in BOOLEAN : Set(key, Not(mem[key]), f)

\* The positions of each range input tried here (its value attribute).
SliderTexts(key) ==
    CASE key = "ambientIntensity"     -> {<<"2", ".", "5">>}
      [] key = "directionalIntensity" -> {<<"0">>}
      [] key = "lightAngle"           -> {<<"0">>, <<"3", "6", "0">>}
      [] key = "pointSize"            -> {<<"0", ".", "5">>, <<"2">>}
      [] key = "rotationSpeed"        -> {<<"0">>, <<"1", ".", "2">>}
      [] key = "propellerSpeed"       -> {<<"0">>}

\* A range input: onChange={(e) => setX(parseFloat(e.target.value))}, and
\* parseInt(e.target.value, 10) for the light angle.
Slide(key) ==
    \E t \in SliderTexts(key), f \in BOOLEAN :
        Set(key, IF key = "lightAngle" THEN parseInt(t) ELSE parseFloat(t), f)

\* The ambient slider with min='-1'.
SliderEndsNegativeMin(key) ==
    CASE key = "ambientIntensity"     -> {<<"-", "1">>, <<"5">>}
      [] key = "directionalIntensity" -> {<<"0">>, <<"5">>}
      [] key = "lightAngle"           -> {<<"0">>, <<"3", "6", "0">>}
      [] key = "pointSize"            -> {<<"0", ".", "5">>, <<"2">>}
      [] key = "rotationSpeed"        -> {<<"0">>, <<"2">>}
      [] key = "propellerSpeed"       -> {<<"0">>, <<"5", "0">>}

\* The two ends of each range input: its min and max attributes.
SliderEnds(key) ==
    CASE key = "ambientIntensity"     -> {<<"0">>, <<"5">>}
      [] key = "directionalIntensity" -> {<<"0">>, <<"5">>}
      [] key = "lightAngle"           -> {<<"0">>, <<"3", "6", "0">>}
      [] key = "pointSize"            -> {<<"0", ".", "5">>, <<"2">>}
      [] key = "rotationSpeed"        -> {<<"0">>, <<"2">>}
      [] key = "propellerSpeed"       -> {<<"0">>, <<"5", "0">>}

\* A range input dragged to one of its ends.
SlideToEnd(key) ==
    \E t \in SliderEnds(key), f \in BOOLEAN :
        Set(key, IF key = "lightAngle" THEN parseInt(t) ELSE parseFloat(t), f)

RECURSIVE SubsetsUpTo(_, _)
\* The subsets of S with at most n elements.
SubsetsUpTo(S, n) ==
    IF n = 0 THEN {{}}
    ELSE SubsetsUpTo(S, n - 1) \cup {T \cup {x} : T \in SubsetsUpTo(S, n - 1), x \in S}

\* The reset button. wfail, rfail: the keys whose setItem, removeItem throws.
Reset ==
    /\ ~crashed
    /\ ops < MaxOps
    /\ \E wfail \in SubsetsUpTo(Keys, MaxFaults - faults) :
       \E rfail \in SubsetsUpTo(Keys, MaxFaults - faults - Cardinality(wfail)) :
        /\ faults' = faults + Cardinality(wfail) + Cardinality(rfail)
        /\ Commit(resetSettings(World, wfail, rfail))
        /\ lastOp' = [NoOp EXCEPT !.op = "reset", !.wfail = wfail, !.rfail = rfail]
    /\ ops' = ops + 1
    /\ clean' = FALSE
    /\ setLog' = <<>>
    /\ UNCHANGED SessionVars
    /\ UNCHANGED fsVars
    /\ Render

\* The session is reloaded: every hook is initialised from the store.
\* gfail: the keys whose getItem throws.
Reload ==
    /\ ops < MaxOps
    /\ \E gfail \in SubsetsUpTo(Keys, MaxFaults - faults) :
        /\ faults' = faults + Cardinality(gfail)
        /\ mem' = [k \in Keys |-> storedValueInit(store, k, k \in gfail)]
        /\ logged' = Cardinality({k \in Keys : initLogs(store, k, k \in gfail)})
        /\ lastOp' = [NoOp EXCEPT !.op = "reload", !.gfail = gfail]
        /\ clean' = (clean /\ gfail = {})
    /\ store' = store
    /\ thrown' = FALSE
    /\ crashed' = renderThrows(mem')
    /\ activePoint' = 0
    /\ isLoading' = TRUE
    /\ yaw' = Num(3, 0)
    /\ frames' = frames
    /\ actualIsRotating' = actualIsRotatingOf(mem', 0)
    /\ orbitEnabled' = orbitEnabledOf(0)
    /\ scaleFactor' = scaleProp(mem')
    /\ distance' = distance
    /\ isImageLoaded' = FALSE
    /\ imageReported' = FALSE
    /\ reached' = {}
    /\ isFullscreen' = (fsElement # {})
    /\ UNCHANGED <<reqApis, exitApis, fsElement, pending>>
    /\ ops' = ops + 1
    /\ setLog' = IF clean' THEN setLog ELSE <<>>

\* ------------------------------------------------------------ selection

\* Airplane mounts once the model is loaded: setIsLoading(false).
ModelLoaded ==
    /\ ~crashed
    /\ isLoading
    /\ isLoading' = FALSE
    /\ lastOp' = [NoOp EXCEPT !.op = "loaded"]
    /\ UNCHANGED <<activePoint, actualIsRotating, orbitEnabled, yaw, frames>>
    /\ UNCHANGED <<prefVars, scaleVars, fsVars, detailVars>>

\* The markers are instantiated: arePointsVisible && points.map(...) in a
\* mounted Airplane.
MarkersMounted == ~crashed /\ ~isLoading /\ Truthy(mem["showPoints"])

\* The elements with a handler for the event, from its target up to the
\* root: a marker's div lies in the container the scene's controls listen
\* on, the close button in the content area, the content area in the backdrop.
Ancestors(target) ==
    CASE target = "marker"      -> <<"marker", "scene">>
      [] target = "scene"       -> <<"scene">>
      [] target = "closeButton" -> <<"closeButton", "content", "backdrop">>
      [] target = "content"     -> <<"content", "backdrop">>
      [] target = "backdrop"    -> <<"backdrop">>

\* Only the marker's handler calls e.stopPropagation().
stopsPropagationMarkerOnly(node) == node = "marker"

\* The handlers that call e.stopPropagation(): a marker's handleClick and the
\* content area's onClick.
stopsPropagation(node) == node \in {"marker", "content"}

\* The active point a handler asks for: onClick(pointData) on marker p,
\* onClose on the close button and on the backdrop.
handlerSets(node, p, ap) ==
    CASE node = "marker"                    -> p
      [] node \in {"closeButton", "backdrop"} -> 0
      [] OTHER                              -> ap

RECURSIVE bubble(_, _, _, _)
\* The event ev goes up path from its i-th element until a handler stops it.
bubble(ev, path, i, p) ==
    IF i > Len(path) \/ ev.stopped THEN ev
    ELSE bubble([activePoint |-> handlerSets(path[i], p, ev.activePoint),
                 reached |-> ev.reached \cup {path[i]},
                 stopped |-> stopsPropagation(path[i])],
                path, i + 1, p)

\* A pointer event on target, p being the marker's point.
dispatch(target, p) ==
    bubble([activePoint |-> activePoint, reached |-> {}, stopped |-> FALSE],
           Ancestors(target), 1, p)

\* handlePointClick, from a marker's onPointerDown.
PointClick(p) ==
    /\ MarkersMounted
    /\ activePoint' = dispatch("marker", p).activePoint
    /\ reached' = dispatch("marker", p).reached
    /\ lastOp' = [NoOp EXCEPT !.op = "click", !.val = Num(p, 0)]
    /\ UNCHANGED <<isLoading, yaw, frames>>
    /\ UNCHANGED <<prefVars, fsVars>>
    /\ Render

\* A click in the InfoBox that is rendered while a point is active.
InfoBoxClick(target) ==
    /\ ~crashed
    /\ activePoint # 0
    /\ activePoint' = dispatch(target, 0).activePoint
    /\ reached' = dispatch(target, 0).reached
    /\ lastOp' = [NoOp EXCEPT !.op = (IF target = "content" THEN "content"
                                      ELSE "close"),
                              !.key = target]
    /\ UNCHANGED <<isLoading, yaw, frames>>
    /\ UNCHANGED <<prefVars, fsVars>>
    /\ Render

\* handleCloseInfoBox, from the close button or the backdrop.
CloseInfoBox == \E target \in {"closeButton", "backdrop"} : InfoBoxClick(target)

\* A click in the content area, not on the close button.
ContentClick == InfoBoxClick("content")

\* A pointer-down on the canvas: the scene's controls take it.
ScenePointerDown ==
    /\ ~crashed
    /\ activePoint' = dispatch("scene", 0).activePoint
    /\ reached' = dispatch("scene", 0).reached
    /\ lastOp' = [NoOp EXCEPT !.op = "scene"]
    /\ UNCHANGED <<isLoading, yaw, frames>>
    /\ UNCHANGED <<prefVars, fsVars>>
    /\ Render

\* The img of the mounted InfoBox fires load: setIsImageLoaded(true).
ImageLoaded ==
    /\ ~crashed
    /\ activePoint # 0
    /\ ~imageReported
    /\ isImageLoaded' = TRUE
    /\ imageReported' = TRUE
    /\ lastOp' = [NoOp EXCEPT !.op = "imageLoaded"]
    /\ UNCHANGED <<reached, selVars, prefVars, scaleVars, fsVars>>

\* Frames rendered in one run.
MaxFrames == 3

\* The elapsed times of a frame tried here, in seconds.
Deltas == {Num(16, 3), Num(33, 3)}

\* The yaw advanced whatever the flag.
rotationIgnoringFlag(y, isAutoRotating, delta, rotationSpeed) ==
    Add(y, Mul(delta, rotationSpeed))

\* Airplane's useFrame callback, on the model's yaw: modelRef.current is set
\* once Airplane is mounted.
rotationAfter(y, isAutoRotating, delta, rotationSpeed) ==
    IF isAutoRotating THEN Add(y, Mul(delta, rotationSpeed)) ELSE y

\* One frame of the mounted Airplane.
Frame(delta) ==
    /\ ~crashed
    /\ ~isLoading
    /\ frames < MaxFrames
    /\ frames' = frames + 1
    /\ yaw' = rotationAfter(yaw, actualIsRotating, delta, mem["rotationSpeed"])
    /\ lastOp' = [NoOp EXCEPT !.op = "frame", !.val = delta]
    /\ UNCHANGED <<activePoint, actualIsRotating, orbitEnabled, isLoading>>
    /\ UNCHANGED <<prefVars, scaleVars, fsVars, detailVars>>

\* ------------------------------------------------------------ marker scale

\* Camera distances go from 0 to MaxDistance quarters of a unit.
MaxDistance == 60

Distances == {Num(25 * i, 2) : i \in 0..MaxDistance}

\* InteractivePoint's useFrame callback, with the camera at distance d.
MarkerFrame(d) ==
    /\ MarkersMounted
    /\ distance' = d
    /\ scaleFactor' = scaleFactorOf(ToQ(d), ToQ(mem["pointSize"]))
    /\ lastOp' = [NoOp EXCEPT !.op = "markerFrame", !.val = d]
    /\ UNCHANGED <<prefVars, selVars, fsVars, detailVars>>

\* ------------------------------------------------------------ fullscreen

\* The four method families, in the order they are probed.
Families == <<"std", "moz", "webkit", "ms">>

FamilySet == {Families[i] : i \in 1..Len(Families)}

\* The first family of apis in probing order, "none" without one.
firstOf(apis) ==
    IF apis = {} THEN "none"
    ELSE Families[CHOOSE i \in 1..Len(Families) :
                    /\ Families[i] \in apis
                    /\ \A j \in 1..(i - 1) : Families[j] \notin apis]

\* !!(doc.fullscreenElement || doc.mozFullScreenElement || ...)
isCurrentlyFullscreen(elems) == elems # {}

NoRequest == [kind |-> "none", via |-> "none"]

\* The standard method called without probing for it.
toggleRequestUnprobed(elems, req, ex) ==
    IF ~isCurrentlyFullscreen(elems) THEN [kind |-> "enter", via |-> "std"]
    ELSE [kind |-> "exit", via |-> "std"]

\* toggleFullscreen: the request it issues.
toggleRequest(elems, req, ex) ==
    IF ~isCurrentlyFullscreen(elems)
    THEN IF firstOf(req) = "none" THEN NoRequest
         ELSE [kind |-> "enter", via |-> firstOf(req)]
    ELSE IF firstOf(ex) = "none" THEN NoRequest
         ELSE [kind |-> "exit", via |-> firstOf(ex)]

\* toggleFullscreen throws: it only calls methods it found.
toggleThrows(elems, req, ex) == FALSE

\* The fullscreen button.
ToggleFullscreen ==
    /\ ~crashed
    /\ pending' = (IF toggleRequest(fsElement, reqApis, exitApis) = NoRequest
                   THEN pending
                   ELSE toggleRequest(fsElement, reqApis, exitApis))
    /\ thrown' = toggleThrows(fsElement, reqApis, exitApis)
    /\ lastOp' = [NoOp EXCEPT !.op = "toggleFullscreen"]
    /\ UNCHANGED <<reqApis, exitApis, fsElement, isFullscreen>>
    /\ UNCHANGED <<mem, store, logged, crashed, ops, faults, setLog, clean>>
    /\ UNCHANGED <<selVars, scaleVars, detailVars>>

\* handleFullscreenChange, subscribed to the four change events.
handleFullscreenChange(elems) == isCurrentlyFullscreen(elems)

\* The platform grants the request in flight and fires its change event.
PlatformGrants ==
    /\ pending.kind # "none"
    /\ fsElement' = (IF pending.kind = "enter" THEN {pending.via} ELSE {})
    /\ isFullscreen' = (IF crashed THEN isFullscreen
                        ELSE handleFullscreenChange(fsElement'))
    /\ pending' = NoRequest
    /\ lastOp' = [NoOp EXCEPT !.op = "granted"]
    /\ UNCHANGED <<reqApis, exitApis>>
    /\ UNCHANGED <<prefVars, selVars, scaleVars, detailVars>>

\* The platform rejects the request in flight: its promise rejects.
PlatformRejects ==
    /\ pending.kind # "none"
    /\ pending' = NoRequest
    /\ lastOp' = [NoOp EXCEPT !.op = "rejected"]
    /\ UNCHANGED <<reqApis, exitApis, fsElement, isFullscreen>>
    /\ UNCHANGED <<prefVars, selVars, scaleVars, detailVars>>

\* The user leaves fullscreen with the platform's own key.
UserLeavesFullscreen ==
    /\ fsElement # {}
    /\ fsElement' = {}
    /\ isFullscreen' = (IF crashed THEN isFullscreen
                        ELSE handleFullscreenChange(fsElement'))
    /\ lastOp' = [NoOp EXCEPT !.op = "left"]
    /\ UNCHANGED <<reqApis, exitApis, pending>>
    /\ UNCHANGED <<prefVars, selVars, scaleVars, detailVars>>

\* ------------------------------------------------------------ specifications

\* Texts another page of the origin may have left under a key.
ForeignTexts == {<<>>, <<"n", "u", "l", "l">>, <<"\"", "a", "\"">>, <<"{", "a">>}

\* The store a first session finds: empty, or holding one entry left by
\* another page of the origin.
InitialStores ==
    {<<>>} \cup {setItem(<<>>, k, t) : k \in Keys, t \in ForeignTexts}

\* App is mounted for the first time, on store st and a platform exposing
\* the methods req and ex.
Mounted(st, req, ex) ==
    /\ store = st
    /\ mem = [k \in Keys |-> storedValueInit(st, k, FALSE)]
    /\ thrown = FALSE
    /\ logged = Cardinality({k \in Keys : initLogs(st, k, FALSE)})
    /\ crashed = renderThrows(mem)
    /\ activePoint = 0
    /\ actualIsRotating = actualIsRotatingOf(mem, 0)
    /\ orbitEnabled = orbitEnabledOf(0)
    /\ isLoading = TRUE
    /\ yaw = Num(3, 0)
    /\ frames = 0
    /\ distance = Num(0, 0)
    /\ scaleFactor = scaleProp(mem)
    /\ reqApis = req
    /\ exitApis = ex
    /\ fsElement = {}
    /\ isFullscreen = isCurrentlyFullscreen(fsElement)
    /\ pending = NoRequest
    /\ ops = (IF st = <<>> THEN 0 ELSE 1)
    /\ faults = 0
    /\ lastOp = NoOp
    /\ setLog = <<>>
    /\ clean = (st = <<>>)
    /\ isImageLoaded = FALSE
    /\ imageReported = FALSE
    /\ reached = {}

\* A first visit: an empty store, a platform with the standard methods.
Init == Mounted(<<>>, {"std"}, {"std"})

\* The viewer: selection, the rotation controls and the frames.
Next ==
    \/ ModelLoaded
    \/ \E p \in PointIds : PointClick(p)
    \/ CloseInfoBox
    \/ Toggle("isAutoRotating")
    \/ Toggle("showPoints")
    \/ Slide("rotationSpeed")
    \/ \E d \in Deltas : Frame(d)

Spec == Init /\ [][Next]_vars

\* The preference store, from any of the initial stores.
InitPrefs == \E st \in InitialStores : Mounted(st, {"std"}, {"std"})

NextPrefs ==
    \/ \E k \in BoolKeys : Toggle(k)
    \/ \E k \in NumKeys : Slide(k)
    \/ Reset
    \/ Reload

SpecPrefs == InitPrefs /\ [][NextPrefs]_vars

\* The markers: the camera moves between frames, the size preference changes.
NextScale ==
    \/ ModelLoaded
    \/ \E d \in Distances : MarkerFrame(d)
    \/ Slide("pointSize")
    \/ Toggle("showPoints")

SpecScale == Init /\ [][NextScale]_vars

\* The settings controls, from the defaults of a first visit: the checkboxes,
\* the range inputs at their ends and the reset button.
NextControls ==
    \/ \E k \in BoolKeys : Toggle(k)
    \/ \E k \in NumKeys : SlideToEnd(k)
    \/ Reset

SpecControls == Init /\ [][NextControls]_vars

\* The detail view: markers, the InfoBox's elements, the canvas, the image.
NextDetail ==
    \/ ModelLoaded
    \/ \E p \in PointIds : PointClick(p)
    \/ CloseInfoBox
    \/ ContentClick
    \/ ScenePointerDown
    \/ ImageLoaded
    \/ Toggle("showPoints")

SpecDetail == Init /\ [][NextDetail]_vars

\* The fullscreen toggle, on every platform.
InitFullscreen ==
    \E req \in SUBSET FamilySet, ex \in SUBSET FamilySet : Mounted(<<>>, req, ex)

NextFullscreen ==
    \/ ToggleFullscreen
    \/ PlatformGrants
    \/ PlatformRejects
    \/ UserLeavesFullscreen

SpecFullscreen == InitFullscreen /\ [][NextFullscreen]_vars

\* ------------------------------------------------------------ properties

\* The defaults the specification documents for the nine fields.
DocumentedDefault ==
    [isAutoRotating |-> Bool(TRUE), ambientIntensity |-> Num(0, 0),
     directionalIntensity |-> Num(2, 0), lightAngle |-> Num(70, 0),
     showPoints |-> Bool(TRUE), pointSize |-> Num(6, 1),
     rotationSpeed |-> Num(3, 1), isPropellerSpinning |-> Bool(TRUE),
     propellerSpeed |-> Num(15, 0)]

AllDefaults(m) == \A k \in Keys : m[k] = DocumentedDefault[k]

\* C1: in every state reachable by marker clicks, closes and preference
\* toggles, at most one hotspot is active, the rotation flag passed to the
\* model is true exactly when the auto-rotate preference is true and no
\* hotspot is active, and orbit control is enabled exactly when no hotspot is
\* active.
SelectionExclusive ==
    /\ activePoint = 0 \/ Cardinality({p \in PointIds : p = activePoint}) = 1
    /\ actualIsRotating = (mem["isAutoRotating"] = Bool(TRUE) /\ activePoint = 0)
    /\ orbitEnabled = (activePoint = 0)

\* A marker was clicked with the preference on: rotation and orbit are off.
SelectionExclusiveWitness ==
    /\ lastOp.op = "click"
    /\ activePoint = 2
    /\ mem["isAutoRotating"] = Bool(TRUE)
    /\ ~actualIsRotating
    /\ ~orbitEnabled

\* C2: with the auto-rotate preference true, a frame leaves the yaw as it is
\* while a hotspot is active, and adds rotationSpeed * delta to it while none
\* is: rotation stops at the click and resumes at the close.
RotationPausedWhileDetailOpen ==
    [][(lastOp'.op = "frame" /\ mem["isAutoRotating"] = Bool(TRUE)) =>
         /\ activePoint # 0 => yaw' = yaw
         /\ activePoint = 0 =>
              yaw' = Add(yaw, Mul(mem["rotationSpeed"], lastOp'.val))]_vars

\* The model had rotated, a marker was clicked, and a frame went by.
RotationPausedWitness ==
    /\ lastOp.op = "frame"
    /\ activePoint # 0
    /\ mem["isAutoRotating"] = Bool(TRUE)
    /\ mem["rotationSpeed"] # Num(0, 0)
    /\ yaw # Num(3, 0)

\* C3: after set(key, v) the value in memory is v, and when the store took
\* the write, the entry under key deserializes to v.
PreferenceRoundTrip ==
    lastOp.op = "set" =>
        /\ mem[lastOp.key] = lastOp.val
        /\ ~lastOp.rejected =>
             /\ lastOp.key \in DOMAIN store
             /\ JSONparse(store[lastOp.key]).ok
             /\ JSONparse(store[lastOp.key]).val = lastOp.val

\* The rotation speed was set to 0 and persisted.
PreferenceRoundTripWitness ==
    /\ lastOp = [NoOp EXCEPT !.op = "set", !.key = "rotationSpeed", !.val = Num(0, 0)]
    /\ store["rotationSpeed"] = <<"0">>
    /\ mem["rotationSpeed"] = Num(0, 0)

\* C4: a set whose write the store rejects raises no error, leaves v in
\* memory, and changes neither the store nor any other field.
RejectedWriteKeepsMemory ==
    [][(lastOp'.op = "set" /\ lastOp'.rejected) =>
         /\ ~thrown'
         /\ mem'[lastOp'.key] = lastOp'.val
         /\ store' = store
         /\ \A k \in Keys \ {lastOp'.key} : mem'[k] = mem[k]]_vars

\* A rejected set left memory ahead of the entry persisted before it.
RejectedWriteWitness ==
    /\ lastOp.op = "set"
    /\ lastOp.rejected
    /\ lastOp.key \in DOMAIN store
    /\ JSONparse(store[lastOp.key]).ok
    /\ JSONparse(store[lastOp.key]).val # mem[lastOp.key]
    /\ mem[lastOp.key] = lastOp.val

\* C5: after resetSettings every field holds its default in memory and no key
\* has a persisted entry, and a second reset in succession leaves the same
\* state.
ResetRestoresDefaults ==
    [][lastOp'.op = "reset" =>
         /\ AllDefaults(mem')
         /\ DOMAIN store' = {}
         /\ lastOp.op = "reset" => (mem' = mem /\ store' = store)]_vars

\* What holds of the code: a reset in which no removal throws restores the
\* defaults and empties the store, whatever writes the store rejected.
ResetCompleteRestoresDefaults ==
    (lastOp.op = "reset" /\ lastOp.rfail = {}) =>
        (AllDefaults(mem) /\ DOMAIN store = {} /\ ~thrown)

\* C6: when the store operation that resets one key fails, every other key is
\* still reset: its value is its default and its entry is removed.
ResetFailureIsolated ==
    lastOp.op = "reset" =>
        \A k \in Keys \ (lastOp.wfail \cup lastOp.rfail) :
            mem[k] = DocumentedDefault[k] /\ k \notin DOMAIN store

\* C7: a load from an empty store yields the documented defaults, and a load
\* after successful sets yields the last value set for each field set and the
\* default for the others.
HydrationRestoresLastSet ==
    (lastOp.op \in {"init", "reload"} /\ clean) =>
        \A k \in Keys :
            mem[k] = IF k \in DOMAIN setLog THEN setLog[k] ELSE DocumentedDefault[k]

\* A reload after auto-rotate was set to false and the rotation speed to 0.
HydrationWitness ==
    /\ lastOp.op = "reload"
    /\ clean
    /\ DOMAIN setLog = {"isAutoRotating", "rotationSpeed"}
    /\ mem["isAutoRotating"] = Bool(FALSE)
    /\ mem["rotationSpeed"] = Num(0, 0)
    /\ mem["lightAngle"] = Num(70, 0)

\* The text of a boolean or of a number.
WellFormed(t) ==
    t \in {<<"t", "r", "u", "e">>, <<"f", "a", "l", "s", "e">>} \/ IsDecimal(t)

\* C8: on load, a key whose entry is absent or malformed takes its default,
\* and no error reaches the caller or the user.
LoadFallsBackToDefaults ==
    lastOp.op \in {"init", "reload"} =>
        /\ ~thrown
        /\ ~crashed
        /\ \A k \in Keys :
             (k \notin DOMAIN store \/ ~WellFormed(store[k])) =>
                 mem[k] = DocumentedDefault[k]

\* C9: the scale a marker frame sets is min(1 / (distance * 0.2), 0.8) * size:
\* 0.8 * size up to the distance 6.25 (and at 0), size / (0.2 * distance)
\* beyond; it is never negative, never above 0.8 * size, and does not grow
\* when the distance grows with the size unchanged.
MarkerScaleLaw ==
    [][lastOp'.op = "markerFrame" =>
         LET d == ToQ(distance')
             z == ToQ(mem'["pointSize"])
             f == scaleFactor'
         IN  /\ f.d > 0
             /\ IF 4 * d.n <= 25 * d.d
                THEN 5 * f.n * z.d = 4 * z.n * f.d
                ELSE f.n * d.n * z.d = 5 * d.d * z.n * f.d
             /\ f.n >= 0
             /\ 5 * f.n * z.d <= 4 * z.n * f.d
             /\ (lastOp.op = "markerFrame" /\ Leq(distance, distance')) =>
                    QLeq(scaleFactor', scaleFactor)]_vars

\* A marker frame with the camera on the marker: the division by zero is
\* capped to 0.8 * 2.
MarkerScaleWitness ==
    /\ lastOp.op = "markerFrame"
    /\ distance = Num(0, 0)
    /\ mem["pointSize"] = Num(2, 0)
    /\ scaleFactor = Q(8, 5)

\* C10: on a platform exposing none of the request or exit methods,
\* toggleFullscreen raises nothing, issues no request and leaves isFullscreen
\* as it is.
ToggleWithoutApiIsNoOp ==
    [][(lastOp'.op = "toggleFullscreen" /\ reqApis = {} /\ exitApis = {}) =>
         /\ ~thrown'
         /\ pending' = NoRequest
         /\ isFullscreen' = isFullscreen
         /\ fsElement' = fsElement]_vars

\* The toggle was invoked on such a platform.
ToggleWithoutApiWitness ==
    /\ lastOp.op = "toggleFullscreen"
    /\ reqApis = {}
    /\ exitApis = {}
    /\ pending = NoRequest
    /\ ~isFullscreen

\* C11: a pointer-down on a marker makes exactly that marker's point active
\* and does not reach the scene's handlers; a click on the close button or on
\* the backdrop leaves no point active; a click in the content area leaves
\* the active point as it was and does not reach the backdrop's handler.
DetailViewTransitions ==
    [][/\ lastOp'.op = "click" =>
            /\ activePoint' \in PointIds
            /\ lastOp'.val = Num(activePoint', 0)
            /\ "scene" \notin reached'
       /\ lastOp'.op = "close" => activePoint' = 0
       /\ lastOp'.op = "content" =>
            /\ activePoint' = activePoint
            /\ "backdrop" \notin reached']_vars

\* A click in the content area of the second point's detail view: it stopped
\* there and the point is still active.
DetailViewTransitionsWitness ==
    /\ lastOp.op = "content"
    /\ activePoint = 2
    /\ reached = {"content"}

\* C12: while a point is active and its image has not reported load, the
\* InfoBox's image-loaded flag is false (the placeholder is shown), whichever
\* way the point became active: a true flag is never carried over from the
\* point that was active before.
ImageFlagPerHotspot ==
    (activePoint # 0 /\ ~imageReported) => ~isImageLoaded

\* The part that holds: a detail view opened from the idle state starts with
\* the flag false.
ImageFlagFreshFromIdle ==
    [][(activePoint = 0 /\ activePoint' # 0) => ~isImageLoaded']_vars

\* The four fields that are never negative.
NonNegativeKeys == {"ambientIntensity", "directionalIntensity",
                    "rotationSpeed", "propellerSpeed"}

NonNegative(v) == IsNum(v) /\ Leq(Num(0, 0), v)

\* C13, as stated: after any sequence of setters from the controls and
\* resets, the light angle is in [0, 360), and the ambient intensity, the
\* directional intensity, the rotation speed and the propeller speed are not
\* negative.
FieldDomainsHalfOpen ==
    /\ NonNegative(mem["lightAngle"])
    /\ Leq(mem["lightAngle"], Num(360, 0))
    /\ mem["lightAngle"] # Num(360, 0)
    /\ \A k \in NonNegativeKeys : NonNegative(mem[k])

\* C13, amended: after any sequence of setters from the controls and resets,
\* the light angle is in [0, 360], both ends included, and the ambient
\* intensity, the directional intensity, the rotation speed and the propeller
\* speed are not negative.
FieldDomains ==
    /\ NonNegative(mem["lightAngle"])
    /\ Leq(mem["lightAngle"], Num(360, 0))
    /\ \A k \in NonNegativeKeys : NonNegative(mem[k])

\* The light-angle slider was dragged to its max and two others to their min.
FieldDomainsWitness ==
    /\ lastOp.op = "set"
    /\ lastOp.key = "lightAngle"
    /\ mem["lightAngle"] = Num(360, 0)
    /\ mem["ambientIntensity"] = Num(0, 0)
    /\ mem["rotationSpeed"] = Num(0, 0)

====
